---- MODULE Spec2Model ----
(***************************************************************************)
(* Model of the flight_trmnl ingestion pipeline: the Stream Client's       *)
(* hand-off (BeastClient.readMessages), the bounded message queue created  *)
(* in main, the batching collector (BeastCollector.Start) and main's       *)
(* shutdown path.                                                          *)
(***************************************************************************)
EXTENDS Integers, Sequences, FiniteSets, TLC

\* ---- bounds of the model ----
MaxMsgs == 4        \* messages the receiver delivers in one run
MaxTime == 4        \* clock ticks observed in one run
QueueCap == 2       \* capacity of messageChan (1000 in main.go, scaled)
BatchSize == 2      \* c.batchSize (100 by default, scaled)
FlushInterval == 2  \* c.flushInterval in clock ticks (1s by default, scaled)

VARIABLES
    ctxDone,        \* the shared context has been cancelled
    mPc,            \* main: "wait", "cancelled", "closed", "exited"
    sPc,            \* stream goroutine: "check", "dial", "sleep", "loop", "read", "send",
                    \* "returned", "closed", "panicked"
    pending,        \* message decoded by readMessages and not handed off yet (0: none)
    nextId,         \* identity of the next message the decoder will produce
    chan,           \* messageChan: the buffered messages, oldest first
    chanClosed,     \* close(messageChan) has been executed
    cPc,            \* collector: "run", "returned"
    cRet,           \* value returned by Start: "none", "ctxErr", "nil"
    batch,          \* Start's local slice batch
    lastFlushTime,  \* Start's local lastFlushTime
    now,            \* the wall clock read by time.Now()
    calls,          \* history of InsertBatch calls: argument, outcome, time, call site
    enqueued,       \* history of the messages placed in messageChan
    received,       \* history of the messages the collector took from messageChan
    \* -- the read loop at byte level (BeastClient.readMessages on one connection)
    frame,          \* the frame the receiver encodes first: type, ts, sig, payload
    shape,          \* how the receiver's byte stream is built from it
    wire,           \* bytes that have arrived and are not read yet (socket and bufio buffer)
    inflight,       \* bytes the receiver has sent that have not arrived yet
    peerClosed,     \* the receiver has closed or reset the connection
    chunks,         \* number of arrivals so far
    dPc,            \* "loop": in readMessages; "down": readMessages returned an error
    dConn,          \* c.conn of this connection: "open", "closed"
    dOut,           \* messages handed off by the read loop
    dLast,          \* how the last iteration of the read loop ended
    \* -- the connection life cycle (BeastClient.StreamMessages)
    conn,           \* c.conn != nil
    maxRetries,     \* c.maxRetries
    retryCount,     \* StreamMessages' local retryCount
    backoff,        \* StreamMessages' local backoff, in seconds
    sleepFor,       \* duration of the time.Sleep in progress (0: not sleeping)
    sRet,           \* value returned by StreamMessages: "none", "ctxErr", "maxRetries"
    connGen,        \* number of successful connects so far
    sentGen,        \* for each enqueued message, the connection it was read from
    \* -- the functions of package models, called on their own
    input,          \* the byte slice passed to the function
    called,         \* the function that was called ("none": not yet)
    result,         \* what the call returned
    \* -- the periodic-timer collector (BeastCollectorTask.processMessages)
    tickerC,        \* ticker.C holds a tick (the channel buffers one)
    tickAt,         \* the time at which the ticker fires next
    batchSince,     \* the time at which the batch last went from empty to non-empty
    \* -- the read loop across a reconnect
    redialBytes,    \* bytes the receiver sends on the next connection
    \* -- the daemon
    done,           \* d.done is closed
    wg,             \* Scheduler.wg: the runTask goroutines that have not exited
    rtTick,         \* a tick is pending in the ticker of runTask
    dbOpen          \* the database has not been closed

pipeVars == <<ctxDone, mPc, sPc, pending, nextId, chan, chanClosed, cPc, cRet,
              batch, lastFlushTime, now, calls, enqueued, received>>

decVars == <<frame, shape, wire, inflight, peerClosed, chunks, dPc, dConn, dOut, dLast>>

cliVars == <<conn, maxRetries, retryCount, backoff, sleepFor, sRet, connGen, sentGen>>

fnVars == <<input, called, result>>

taskVars == <<tickerC, tickAt, batchSince>>

redialVars == <<redialBytes>>

daemonVars == <<done, wg, rtTick, dbOpen>>

vars == <<pipeVars, decVars, cliVars, fnVars, taskVars, redialVars, daemonVars>>

mainVars == <<ctxDone, mPc>>
streamVars == <<sPc, pending, nextId, enqueued>>
collectorVars == <<cPc, cRet, batch, lastFlushTime, calls, received>>

\* ---- helpers ----
RECURSIVE Flatten(_)
Flatten(cs) == IF cs = <<>> THEN <<>> ELSE Head(cs).msgs \o Flatten(Tail(cs))

Range(s) == {s[i] : i \in 1..Len(s)}

Last(s) == s[Len(s)]

Pos(s, x) == CHOOSE k \in 1..Len(s) : s[k] = x

Running == mPc # "exited"

TypeOK ==
    /\ ctxDone \in BOOLEAN
    /\ mPc \in {"wait", "cancelled", "closed", "exited",
               "schedulerStop", "closeClient", "closeDatabase", "stopped"}
    /\ sPc \in {"check", "dial", "sleep", "loop", "read", "send", "returned", "closed",
               "panicked"}
    /\ pending \in 0..MaxMsgs
    /\ nextId \in 1..(MaxMsgs + 1)
    /\ Len(chan) <= QueueCap
    /\ chanClosed \in BOOLEAN
    /\ cPc \in {"run", "returned"}
    /\ cRet \in {"none", "ctxErr", "nil"}
    /\ now \in 0..MaxTime
    /\ lastFlushTime \in 0..MaxTime

NoFrame == [type |-> 0, ts |-> <<>>, sig |-> 0, payload |-> <<>>]

DecIdle ==
    /\ frame = NoFrame
    /\ shape = "none"
    /\ wire = <<>>
    /\ inflight = <<>>
    /\ peerClosed = FALSE
    /\ chunks = 0
    /\ dPc = "idle"
    /\ dConn = "closed"
    /\ dOut = <<>>
    /\ dLast = "none"

CliIdle ==
    /\ conn = FALSE
    /\ maxRetries = -1
    /\ retryCount = 0
    /\ backoff = 1
    /\ sleepFor = 0
    /\ sRet = "none"
    /\ connGen = 0
    /\ sentGen = <<>>

FnIdle ==
    /\ input = <<>>
    /\ called = "none"
    /\ result = "none"

TaskIdle ==
    /\ tickerC = FALSE
    /\ tickAt = 0
    /\ batchSince = 0

RedialIdle == redialBytes = <<>>

DaemonIdle ==
    /\ done = FALSE
    /\ wg = 0
    /\ rtTick = FALSE
    /\ dbOpen = TRUE

PipeInit ==
    /\ ctxDone = FALSE
    /\ mPc = "wait"
    /\ sPc = "check"
    /\ pending = 0
    /\ nextId = 1
    /\ chan = <<>>
    /\ chanClosed = FALSE
    /\ cPc = "run"
    /\ cRet = "none"
    /\ batch = <<>>
    /\ lastFlushTime = 0
    /\ now = 0
    /\ calls = <<>>
    /\ enqueued = <<>>
    /\ received = <<>>

Init == PipeInit /\ DecIdle /\ CliIdle /\ FnIdle /\ TaskIdle /\ RedialIdle /\ DaemonIdle

\* ---- the clock ----
Tick ==
    /\ Running
    /\ now < MaxTime
    /\ now' = now + 1
    /\ UNCHANGED <<mainVars, streamVars, chan, chanClosed, collectorVars>>
    /\ UNCHANGED <<decVars, cliVars, fnVars, taskVars, redialVars, daemonVars>>

\* ---- main ----
MainCancel ==
    /\ mPc = "wait"
    /\ ctxDone' = TRUE
    /\ mPc' = "cancelled"
    /\ UNCHANGED <<streamVars, chan, chanClosed, collectorVars, now>>
    /\ UNCHANGED <<decVars, cliVars, fnVars, taskVars, redialVars, daemonVars>>

MainClose ==
    /\ mPc = "cancelled"
    /\ mPc' = "closed"
    /\ UNCHANGED <<ctxDone, streamVars, chan, chanClosed, collectorVars, now>>
    /\ UNCHANGED <<decVars, cliVars, fnVars, taskVars, redialVars, daemonVars>>

MainExit ==
    /\ mPc = "closed"
    /\ mPc' = "exited"
    /\ UNCHANGED <<ctxDone, streamVars, chan, chanClosed, collectorVars, now>>
    /\ UNCHANGED <<decVars, cliVars, fnVars, taskVars, redialVars, daemonVars>>

\* ---- stream goroutine ----
StreamCheckCtx ==
    /\ Running
    /\ sPc = "check"
    /\ sPc' = IF ctxDone THEN "returned" ELSE "read"
    /\ UNCHANGED <<mainVars, pending, nextId, enqueued, chan, chanClosed, collectorVars, now>>
    /\ UNCHANGED <<decVars, cliVars, fnVars, taskVars, redialVars, daemonVars>>

StreamDecode ==
    /\ Running
    /\ sPc = "read"
    /\ nextId <= MaxMsgs
    /\ pending' = nextId
    /\ nextId' = nextId + 1
    /\ sPc' = "send"
    /\ UNCHANGED <<mainVars, enqueued, chan, chanClosed, collectorVars, now>>
    /\ UNCHANGED <<decVars, cliVars, fnVars, taskVars, redialVars, daemonVars>>

StreamNoFrame ==
    /\ Running
    /\ sPc = "read"
    /\ sPc' = "check"
    /\ UNCHANGED <<mainVars, pending, nextId, enqueued, chan, chanClosed, collectorVars, now>>
    /\ UNCHANGED <<decVars, cliVars, fnVars, taskVars, redialVars, daemonVars>>

StreamSendDropWhenFull ==
    /\ Running
    /\ sPc = "send"
    /\ IF Len(chan) < QueueCap
       THEN chan' = Append(chan, pending) /\ enqueued' = Append(enqueued, pending)
       ELSE chan' = chan /\ enqueued' = enqueued
    /\ pending' = 0
    /\ sPc' = "check"
    /\ UNCHANGED <<mainVars, nextId, chanClosed, collectorVars, now>>
    /\ UNCHANGED <<decVars, cliVars, fnVars, taskVars, redialVars, daemonVars>>

StreamSend ==
    /\ Running
    /\ sPc = "send"
    /\ Len(chan) < QueueCap
    /\ chan' = Append(chan, pending)
    /\ enqueued' = Append(enqueued, pending)
    /\ pending' = 0
    /\ sPc' = "check"
    /\ UNCHANGED <<mainVars, nextId, chanClosed, collectorVars, now>>
    /\ UNCHANGED <<decVars, cliVars, fnVars, taskVars, redialVars, daemonVars>>

StreamSendCancelled ==
    /\ Running
    /\ sPc = "send"
    /\ ctxDone
    /\ pending' = 0
    /\ sPc' = "returned"
    /\ UNCHANGED <<mainVars, nextId, enqueued, chan, chanClosed, collectorVars, now>>
    /\ UNCHANGED <<decVars, cliVars, fnVars, taskVars, redialVars, daemonVars>>

StreamCloseChan ==
    /\ Running
    /\ sPc = "returned"
    /\ chanClosed' = TRUE
    /\ sPc' = "closed"
    /\ UNCHANGED <<mainVars, pending, nextId, enqueued, chan, collectorVars, now>>
    /\ UNCHANGED <<decVars, cliVars, fnVars, taskVars, redialVars, daemonVars>>

\* ---- collector ----
AppendMsgFront(b, m) == <<m>> \o b

AppendMsg(b, m) == Append(b, m)

SizeReachedLate(b) == Len(b) > BatchSize

SizeReached(b) == Len(b) >= BatchSize

TimeReachedStrict(t, last) == t - last > FlushInterval

TimeReached(t, last) == t - last >= FlushInterval

FlushArgLast(b) == <<b[Len(b)]>>

FlushArg(b) == b

BatchAfterFlushKeepFailed(b, ok) == IF ok THEN <<>> ELSE b

BatchAfterFlush(b, ok) == <<>>

LastFlushAfter(ok, t, last) == IF ok THEN t ELSE last

flushBatchUnguarded(b, ok, site) ==
    /\ calls' = Append(calls, [msgs |-> FlushArg(b), ok |-> ok, at |-> now, site |-> site])
    /\ lastFlushTime' = LastFlushAfter(ok, now, lastFlushTime)
    /\ batch' = BatchAfterFlush(b, ok)

flushBatchKeepLast(b, ok, site) ==
    IF Len(b) > 0
    THEN /\ calls' = Append(calls, [msgs |-> FlushArg(b), ok |-> ok, at |-> now, site |-> site])
         /\ lastFlushTime' = LastFlushAfter(ok, now, lastFlushTime)
         /\ batch' = <<b[Len(b)]>>
    ELSE /\ calls' = calls
         /\ lastFlushTime' = lastFlushTime
         /\ batch' = b

flushBatch(b, ok, site) ==
    IF Len(b) > 0
    THEN /\ calls' = Append(calls, [msgs |-> FlushArg(b), ok |-> ok, at |-> now, site |-> site])
         /\ lastFlushTime' = LastFlushAfter(ok, now, lastFlushTime)
         /\ batch' = BatchAfterFlush(b, ok)
    ELSE /\ calls' = calls
         /\ lastFlushTime' = lastFlushTime
         /\ batch' = b

CollectorCancelNoFlush ==
    /\ Running
    /\ cPc = "run"
    /\ ctxDone
    /\ cPc' = "returned"
    /\ cRet' = "ctxErr"
    /\ UNCHANGED <<mainVars, streamVars, chan, chanClosed, received, now,
                   calls, lastFlushTime, batch>>
    /\ UNCHANGED <<decVars, cliVars, fnVars, taskVars, redialVars, daemonVars>>

CollectorCancel ==
    /\ Running
    /\ cPc = "run"
    /\ ctxDone
    /\ \E ok \in BOOLEAN : flushBatch(batch, ok, "cancel")
    /\ cPc' = "returned"
    /\ cRet' = "ctxErr"
    /\ UNCHANGED <<mainVars, streamVars, chan, chanClosed, received, now>>
    /\ UNCHANGED <<decVars, cliVars, fnVars, taskVars, redialVars, daemonVars>>

CollectorClosedEarly ==
    /\ Running
    /\ cPc = "run"
    /\ chanClosed
    /\ \E ok \in BOOLEAN : flushBatch(batch, ok, "closed")
    /\ cPc' = "returned"
    /\ cRet' = "nil"
    /\ UNCHANGED <<mainVars, streamVars, chan, chanClosed, received, now>>
    /\ UNCHANGED <<decVars, cliVars, fnVars, taskVars, redialVars, daemonVars>>

CollectorClosedNoFlush ==
    /\ Running
    /\ cPc = "run"
    /\ chan = <<>>
    /\ chanClosed
    /\ cPc' = "returned"
    /\ cRet' = "nil"
    /\ UNCHANGED <<mainVars, streamVars, chan, chanClosed, received, now,
                   calls, lastFlushTime, batch>>
    /\ UNCHANGED <<decVars, cliVars, fnVars, taskVars, redialVars, daemonVars>>

CollectorClosed ==
    /\ Running
    /\ cPc = "run"
    /\ chan = <<>>
    /\ chanClosed
    /\ \E ok \in BOOLEAN : flushBatch(batch, ok, "closed")
    /\ cPc' = "returned"
    /\ cRet' = "nil"
    /\ UNCHANGED <<mainVars, streamVars, chan, chanClosed, received, now>>
    /\ UNCHANGED <<decVars, cliVars, fnVars, taskVars, redialVars, daemonVars>>

CollectorRecvStopOnError ==
    /\ Running
    /\ cPc = "run"
    /\ chan # <<>>
    /\ LET msg == Head(chan)
           b == AppendMsg(batch, msg)
       IN /\ chan' = Tail(chan)
          /\ received' = Append(received, msg)
          /\ IF SizeReached(b) \/ TimeReached(now, lastFlushTime)
             THEN \E ok \in BOOLEAN :
                     /\ flushBatch(b, ok, IF SizeReached(b) THEN "size" ELSE "time")
                     /\ cPc' = IF ok THEN "run" ELSE "returned"
                     /\ cRet' = IF ok THEN "none" ELSE "nil"
             ELSE /\ batch' = b
                  /\ UNCHANGED <<calls, lastFlushTime, cPc, cRet>>
    /\ UNCHANGED <<mainVars, streamVars, chanClosed, now>>
    /\ UNCHANGED <<decVars, cliVars, fnVars, taskVars, redialVars, daemonVars>>

\* The select's receive case.  readMessages hands off only messages that
\* ParseBeastMessage returned without error, so the queue never holds nil and
\* the msg == nil branch is not taken.  InsertBatch's outcome is the choice of ok.
CollectorRecv ==
    /\ Running
    /\ cPc = "run"
    /\ chan # <<>>
    /\ LET msg == Head(chan)
           b == AppendMsg(batch, msg)
       IN /\ chan' = Tail(chan)
          /\ received' = Append(received, msg)
          /\ IF SizeReached(b)
             THEN \E ok \in BOOLEAN : flushBatch(b, ok, "size")
             ELSE IF TimeReached(now, lastFlushTime)
                  THEN \E ok \in BOOLEAN : flushBatch(b, ok, "time")
                  ELSE /\ batch' = b
                       /\ UNCHANGED <<calls, lastFlushTime>>
    /\ UNCHANGED <<mainVars, streamVars, chanClosed, cPc, cRet, now>>
    /\ UNCHANGED <<decVars, cliVars, fnVars, taskVars, redialVars, daemonVars>>

Next ==
    \/ Tick
    \/ MainCancel
    \/ MainClose
    \/ MainExit
    \/ StreamCheckCtx
    \/ StreamDecode
    \/ StreamNoFrame
    \/ StreamSend
    \/ StreamSendCancelled
    \/ StreamCloseChan
    \/ CollectorCancel
    \/ CollectorClosed
    \/ CollectorRecv

Spec == Init /\ [][Next]_vars

\* ======================================================================
\* The wire format and the read loop at byte level
\* ======================================================================
BeastStartByte == 26

BeastTypeModeAC == 49

BeastTypeModeSShort == 50

BeastTypeModeSLong == 51

BeastHeaderLen == 2

BeastTimestampLen == 6

BeastSignalLen == 1

BeastDataLenModeAC == 2

BeastDataLenModeSShort == 7

BeastDataLenModeSLong == 14

TicksPerSecond == 12000000

MaxChunks == 2      \* arrivals into which the receiver's bytes may be split

GetBeastDataLenShortAsLong(typeByte) ==
    CASE typeByte = BeastTypeModeAC -> BeastDataLenModeAC
      [] typeByte = BeastTypeModeSShort -> BeastDataLenModeSLong
      [] typeByte = BeastTypeModeSLong -> BeastDataLenModeSLong
      [] OTHER -> -1

\* -1 stands for the error return
GetBeastDataLen(typeByte) ==
    CASE typeByte = BeastTypeModeAC -> BeastDataLenModeAC
      [] typeByte = BeastTypeModeSShort -> BeastDataLenModeSShort
      [] typeByte = BeastTypeModeSLong -> BeastDataLenModeSLong
      [] OTHER -> -1

GetBeastTotalLen(typeByte) ==
    CASE typeByte = BeastTypeModeAC ->
            BeastHeaderLen + BeastTimestampLen + BeastSignalLen + BeastDataLenModeAC
      [] typeByte = BeastTypeModeSShort ->
            BeastHeaderLen + BeastTimestampLen + BeastSignalLen + BeastDataLenModeSShort
      [] typeByte = BeastTypeModeSLong ->
            BeastHeaderLen + BeastTimestampLen + BeastSignalLen + BeastDataLenModeSLong
      [] OTHER -> -1

\* binary.BigEndian over the timestamp bytes
RECURSIVE BigEndian(_, _)
BigEndian(bytes, acc) ==
    IF bytes = <<>> THEN acc ELSE BigEndian(Tail(bytes), 256 * acc + Head(bytes))

\* time.Duration(timestampSeconds) * time.Second: the float is truncated to
\* whole seconds
TimestampSeconds(ticks) == ticks \div TicksPerSecond

IsModeSAnyType(typeByte) == TRUE

IsModeS(typeByte) == typeByte = BeastTypeModeSShort \/ typeByte = BeastTypeModeSLong

\* fmt.Sprintf("%06X", v): the upper-case hexadecimal digits of v, padded with
\* zeros on the left to a width of 6
HexDigits == <<"0", "1", "2", "3", "4", "5", "6", "7", "8", "9", "A", "B", "C", "D", "E", "F">>

RECURSIVE HexUpper(_)
HexUpper(v) ==
    IF v < 16 THEN HexDigits[v + 1] ELSE HexUpper(v \div 16) \o HexDigits[(v % 16) + 1]

RECURSIVE ZeroPad(_, _)
ZeroPad(str, width) == IF Len(str) >= width THEN str ELSE ZeroPad("0" \o str, width)

Sprintf06X(v) == ZeroPad(HexUpper(v), 6)

extractICAOUnmasked(message) ==
    IF Len(message) < 3 THEN ""
    ELSE Sprintf06X(message[1] * 65536 + message[2] * 256 + message[3])

\* (uint32(message[0])&0x07)<<16 | uint32(message[1])<<8 | uint32(message[2]):
\* the three fields do not overlap, so the ORs are sums
extractICAO(message) ==
    IF Len(message) < 3 THEN ""
    ELSE Sprintf06X((message[1] % 8) * 65536 + message[2] * 256 + message[3])

determineMessageTypeLowBits(message) ==
    IF Len(message) = 0 THEN "unknown"
    ELSE LET df == message[1] % 32
         IN CASE df \in {0, 4, 5, 11} -> "surveillance"
              [] df \in {16, 17, 18, 19} -> "extended_squitter"
              [] df \in {20, 21} -> "comm_b"
              [] OTHER -> "other"

\* df := (message[0] >> 3) & 0x1F
determineMessageType(message) ==
    IF Len(message) = 0 THEN "unknown"
    ELSE LET df == (message[1] \div 8) % 32
         IN CASE df \in {0, 4, 5, 11} -> "surveillance"
              [] df \in {16, 17, 18, 19} -> "extended_squitter"
              [] df \in {20, 21} -> "comm_b"
              [] OTHER -> "other"

NoMsg == [code |-> 0, timestamp |-> 0, signal |-> 0, message |-> <<>>,
          icao |-> "", messageType |-> ""]

\* ParseBeastMessage(data) called at wall-clock second t.  err "panic" is the
\* index-out-of-range of data[1] on a one-byte slice.
ParseBeastMessage(data, t) ==
    IF Len(data) = 0 THEN [err |-> "empty", msg |-> NoMsg]
    ELSE IF data[1] # BeastStartByte THEN [err |-> "start", msg |-> NoMsg]
    ELSE IF Len(data) < 2 THEN [err |-> "panic", msg |-> NoMsg]
    ELSE IF GetBeastDataLen(data[2]) < 0 THEN [err |-> "type", msg |-> NoMsg]
    ELSE LET expectedDataLen == GetBeastDataLen(data[2])
             expectedTotalLen == BeastHeaderLen + BeastTimestampLen + BeastSignalLen + expectedDataLen
         IN IF Len(data) # expectedTotalLen THEN [err |-> "length", msg |-> NoMsg]
            ELSE LET timestampTicks ==
                         BigEndian(SubSeq(data, BeastHeaderLen + 1, BeastHeaderLen + BeastTimestampLen), 0)
                     messageStart == BeastHeaderLen + BeastTimestampLen + BeastSignalLen
                     message == SubSeq(data, messageStart + 1, messageStart + expectedDataLen)
                 IN [err |-> "none",
                     msg |-> [code |-> data[2],
                              timestamp |-> t - TimestampSeconds(timestampTicks),
                              signal |-> data[BeastHeaderLen + BeastTimestampLen + 1],
                              message |-> message,
                              icao |-> IF IsModeS(data[2]) THEN extractICAO(message) ELSE "",
                              messageType |-> IF IsModeS(data[2])
                                              THEN determineMessageType(message)
                                              ELSE "mode_ac"]]

\* What a read that finds no byte returns: the deadline elapses on a live
\* connection, io.EOF once the receiver has closed and everything has arrived.
NoByte(eof) == IF eof THEN "eof" ELSE "timeout"

\* readBytesWithEscape(n) over the available bytes w: err, the bytes read and
\* the bytes left unread.
RECURSIVE readBytesWithEscape(_, _, _, _)
readBytesWithEscape(w, n, data, eof) ==
    IF Len(data) >= n THEN [err |-> "none", data |-> data, rest |-> w]
    ELSE IF w = <<>> THEN [err |-> NoByte(eof), data |-> <<>>, rest |-> w]
    ELSE IF Head(w) = BeastStartByte
         THEN IF Tail(w) = <<>>
              THEN [err |-> NoByte(eof), data |-> <<>>, rest |-> Tail(w)]
              ELSE IF w[2] = BeastStartByte
                   THEN readBytesWithEscape(Tail(Tail(w)), n, Append(data, BeastStartByte), eof)
                   ELSE [err |-> "syncLoss", data |-> <<>>, rest |-> Tail(w)]
         ELSE readBytesWithEscape(Tail(w), n, Append(data, Head(w)), eof)

handleReadErrorTimeoutFatal(err) ==
    IF err = "none" THEN "nil"
    ELSE IF err = "eof" THEN "connection closed"
    ELSE err

\* handleReadError: "nil" for no error and for a timeout, the error otherwise
handleReadError(err) ==
    IF err = "none" THEN "nil"
    ELSE IF err = "timeout" THEN "nil"
    ELSE IF err = "eof" THEN "connection closed"
    ELSE err

\* The way one iteration of readMessages' loop ends after a read error.
AfterReadError(err, rest) ==
    IF handleReadError(err) # "nil"
    THEN [ctl |-> "return", why |-> err, rest |-> rest, msg |-> NoMsg]
    ELSE [ctl |-> "continue", why |-> err, rest |-> rest, msg |-> NoMsg]

Continue(why, rest) == [ctl |-> "continue", why |-> why, rest |-> rest, msg |-> NoMsg]

ReadBodyUnknownTypeFatal(typeByte, w, eof, t) ==
    IF GetBeastTotalLen(typeByte) < 0
    THEN [ctl |-> "return", why |-> "unknownType", rest |-> w, msg |-> NoMsg]
    ELSE LET r == readBytesWithEscape(w, GetBeastTotalLen(typeByte) - BeastHeaderLen, <<>>, eof)
         IN IF r.err # "none" THEN AfterReadError(r.err, r.rest)
            ELSE LET parsed == ParseBeastMessage(<<BeastStartByte, typeByte>> \o r.data, t)
                 IN IF parsed.err # "none" THEN Continue("parseErr", r.rest)
                    ELSE [ctl |-> "handoff", why |-> "msg", rest |-> r.rest, msg |-> parsed.msg]

\* The body of the frame, once the start and type bytes are read.
ReadBody(typeByte, w, eof, t) ==
    IF GetBeastTotalLen(typeByte) < 0 THEN Continue("unknownType", w)
    ELSE LET r == readBytesWithEscape(w, GetBeastTotalLen(typeByte) - BeastHeaderLen, <<>>, eof)
         IN IF r.err # "none" THEN AfterReadError(r.err, r.rest)
            ELSE LET parsed == ParseBeastMessage(<<BeastStartByte, typeByte>> \o r.data, t)
                 IN IF parsed.err # "none" THEN Continue("parseErr", r.rest)
                    ELSE [ctl |-> "handoff", why |-> "msg", rest |-> r.rest, msg |-> parsed.msg]

\* One iteration of readMessages' loop over the available bytes w.
ReadIteration(w, eof, t) ==
    IF w = <<>> THEN AfterReadError(NoByte(eof), w)
    ELSE IF Head(w) # BeastStartByte THEN Continue("skip", Tail(w))
    ELSE LET w2 == Tail(w)
         IN IF w2 = <<>> THEN AfterReadError(NoByte(eof), w2)
            ELSE LET typeByte == Head(w2)
                     w3 == Tail(w2)
                 IN IF typeByte # BeastStartByte THEN ReadBody(typeByte, w3, eof, t)
                    ELSE IF w3 = <<>> THEN AfterReadError(NoByte(eof), w3)
                    ELSE IF Head(w3) = BeastStartByte
                         THEN ReadBody(BeastStartByte, Tail(w3), eof, t)
                         ELSE Continue("typeRestart", w3)

\* ---- the receiver's side: frames and their encoding ----
RECURSIVE Escape(_)
Escape(bytes) ==
    IF bytes = <<>> THEN <<>>
    ELSE IF Head(bytes) = BeastStartByte
         THEN <<BeastStartByte, BeastStartByte>> \o Escape(Tail(bytes))
         ELSE <<Head(bytes)>> \o Escape(Tail(bytes))

Body(f) == f.ts \o <<f.sig>> \o f.payload

EncodeFrame(f) == <<BeastStartByte, f.type>> \o Escape(Body(f))

\* the frame with the doubling of the k-th body byte left out
EncodeUndoubled(f, k) ==
    <<BeastStartByte, f.type>> \o Escape(SubSeq(Body(f), 1, k - 1))
        \o <<BeastStartByte>> \o Escape(SubSeq(Body(f), k + 1, Len(Body(f))))

Heartbeat == [type |-> BeastTypeModeAC, ts |-> <<0, 0, 0, 0, 0, 0>>, sig |-> 0, payload |-> <<0, 0>>]

TimestampInputs ==
    { <<0, 0, 0, 0, 0, 0>>, <<0, 0, 0, 183, 27, 0>>, <<0, 0, 0, 183, 27, 1>>, <<0, 0, 26, 0, 0, 26>> }

SignalInputs == {26, 128}

PayloadInputs(n) ==
    { [i \in 1..n |-> IF i = k THEN BeastStartByte ELSE 141] : k \in {0, 1, n} }

FrameInputs ==
    {Heartbeat} \cup
    UNION { [type : {ty}, ts : TimestampInputs, sig : SignalInputs,
             payload : PayloadInputs(GetBeastDataLen(ty))] :
            ty \in {BeastTypeModeAC, BeastTypeModeSShort, BeastTypeModeSLong} }

\* a marker with a type byte that no frame type uses, and the bytes up to the
\* next marker
UnknownTypeInputs == {<<BeastStartByte, 52>>, <<BeastStartByte, 52, 0>>}

\* The byte streams the receiver sends: the frame alone; the frame with one
\* doubling removed, then a heartbeat; the frame cut short after k bytes,
\* then a heartbeat; a marker with an unknown type byte, then the frame; a
\* lone marker, then the frame.
StreamInputs(f) ==
    {[shape |-> "clean", bytes |-> EncodeFrame(f)]}
    \cup {[shape |-> "unknownType", bytes |-> u \o EncodeFrame(f)] : u \in UnknownTypeInputs}
    \cup {[shape |-> "strayMarker", bytes |-> <<BeastStartByte>> \o EncodeFrame(f)]}
    \cup {[shape |-> "undoubled", bytes |-> EncodeUndoubled(f, k) \o EncodeFrame(Heartbeat)] :
             k \in {i \in 1..Len(Body(f)) : Body(f)[i] = BeastStartByte}}
    \cup {[shape |-> "cut", bytes |-> SubSeq(EncodeFrame(f), 1, k) \o EncodeFrame(Heartbeat)] :
             k \in {BeastHeaderLen + Len(Escape(SubSeq(Body(f), 1, j))) : j \in 1..(Len(Body(f)) - 1)}}

DecInit ==
    /\ PipeInit
    /\ CliIdle
    /\ FnIdle
    /\ TaskIdle
    /\ RedialIdle
    /\ DaemonIdle
    /\ \E f \in FrameInputs : \E st \in StreamInputs(f) :
          /\ frame = f
          /\ shape = st.shape
          /\ inflight = st.bytes
    /\ wire = <<>>
    /\ peerClosed = FALSE
    /\ chunks = 0
    /\ dPc = "loop"
    /\ dConn = "open"
    /\ dOut = <<>>
    /\ dLast = "none"

\* some of the bytes in flight arrive
DecArrive ==
    /\ dConn = "open"
    /\ inflight # <<>>
    /\ chunks < MaxChunks
    /\ \E k \in 1..Len(inflight) :
          /\ wire' = wire \o SubSeq(inflight, 1, k)
          /\ inflight' = SubSeq(inflight, k + 1, Len(inflight))
    /\ chunks' = chunks + 1
    /\ UNCHANGED <<frame, shape, peerClosed, dPc, dConn, dOut, dLast, pipeVars, cliVars, fnVars, taskVars, redialVars, daemonVars>>

\* the receiver closes the connection (bytes in flight still arrive) or the
\* connection is reset (bytes in flight are lost)
DecPeerClose ==
    /\ dConn = "open"
    /\ ~peerClosed
    /\ peerClosed' = TRUE
    /\ \E lost \in BOOLEAN : inflight' = IF lost THEN <<>> ELSE inflight
    /\ UNCHANGED <<frame, shape, wire, chunks, dPc, dConn, dOut, dLast, pipeVars, cliVars, fnVars, taskVars, redialVars, daemonVars>>

\* One iteration of the read loop.  An error return of readMessages makes
\* StreamMessages call closeConnection, which drops the connection and the
\* reader with everything buffered.
DecIterate ==
    /\ dPc = "loop"
    /\ dConn = "open"
    /\ LET it == ReadIteration(wire, peerClosed /\ inflight = <<>>, now)
       IN /\ dLast' = it.why
          /\ dOut' = IF it.ctl = "handoff" THEN Append(dOut, it.msg) ELSE dOut
          /\ IF it.ctl = "return"
             THEN /\ dPc' = "down"
                  /\ dConn' = "closed"
                  /\ wire' = <<>>
                  /\ inflight' = <<>>
             ELSE /\ dPc' = "loop"
                  /\ dConn' = "open"
                  /\ wire' = it.rest
                  /\ inflight' = inflight
    /\ UNCHANGED <<frame, shape, peerClosed, chunks, pipeVars, cliVars, fnVars, taskVars, redialVars, daemonVars>>

DecNext ==
    \/ DecArrive
    \/ DecPeerClose
    \/ DecIterate

SpecDecode == DecInit /\ [][DecNext]_vars

\* ======================================================================
\* The connection life cycle: BeastClient.StreamMessages around the read
\* loop, feeding the queue the collector drains
\* ======================================================================
RetryBackoff == 1   \* c.retryBackoff, in seconds

BackoffCeiling == 30

MaxFails == 7       \* consecutive failed dials in one run
MaxConns == 2       \* connections that may break in one run
RetryCap == 2       \* the attempt cap of a capped client
MaxFrames == 3      \* frames the receiver delivers in one run

Min(a, b) == IF a < b THEN a ELSE b

NextBackoffNoCeiling(b) == b * 2

NextBackoff(b) == Min(b * 2, BackoffCeiling)

RetriesExceededNoGuard(cap, count) == count > cap

\* c.maxRetries > 0 && retryCount > c.maxRetries
RetriesExceeded(cap, count) == cap > 0 /\ count > cap

CliInit ==
    /\ PipeInit
    /\ DecIdle
    /\ FnIdle
    /\ TaskIdle
    /\ RedialIdle
    /\ DaemonIdle
    /\ maxRetries \in {-1, RetryCap}
    /\ conn = FALSE
    /\ retryCount = 0
    /\ backoff = RetryBackoff
    /\ sleepFor = 0
    /\ sRet = "none"
    /\ connGen = 0
    /\ sentGen = <<>>

cliFrame == <<mainVars, chanClosed, collectorVars, now, decVars, fnVars, taskVars, redialVars, daemonVars, maxRetries>>

\* closeConnection
closeConnection(c) == FALSE

\* top of StreamMessages' loop: the cancellation check, then the choice
\* between dialling and reading
CliTop ==
    /\ sPc = "check"
    /\ IF ctxDone
       THEN sPc' = "returned" /\ sRet' = "ctxErr"
       ELSE sPc' = (IF conn THEN "loop" ELSE "dial") /\ sRet' = sRet
    /\ UNCHANGED <<cliFrame, pending, nextId, enqueued, chan, conn, retryCount, backoff,
                   sleepFor, connGen, sentGen>>

\* c.connect succeeds: the retry state is reset
CliDialOK ==
    /\ sPc = "dial"
    /\ ~ctxDone
    /\ conn' = TRUE
    /\ retryCount' = 0
    /\ backoff' = RetryBackoff
    /\ connGen' = connGen + 1
    /\ sPc' = "loop"
    /\ UNCHANGED <<cliFrame, pending, nextId, enqueued, chan, sleepFor, sRet, sentGen>>

\* c.connect fails: return on cancellation or on an exhausted attempt cap,
\* else start the backoff sleep
CliDialFail ==
    /\ sPc = "dial"
    /\ ctxDone \/ retryCount < MaxFails
    /\ IF ctxDone
       THEN /\ sPc' = "returned"
            /\ sRet' = "ctxErr"
            /\ UNCHANGED <<retryCount, sleepFor>>
       ELSE /\ retryCount' = retryCount + 1
            /\ IF RetriesExceeded(maxRetries, retryCount + 1)
               THEN sPc' = "returned" /\ sRet' = "maxRetries" /\ sleepFor' = sleepFor
               ELSE sPc' = "sleep" /\ sRet' = sRet /\ sleepFor' = backoff
    /\ UNCHANGED <<cliFrame, pending, nextId, enqueued, chan, conn, backoff, connGen, sentGen>>

\* time.Sleep(backoff) returns: the backoff is doubled up to its ceiling
CliWake ==
    /\ sPc = "sleep"
    /\ backoff' = NextBackoff(backoff)
    /\ sleepFor' = 0
    /\ sPc' = "check"
    /\ UNCHANGED <<cliFrame, pending, nextId, enqueued, chan, conn, retryCount, sRet,
                   connGen, sentGen>>

\* top of readMessages' loop: on cancellation it returns ctx.Err(), which
\* StreamMessages answers with closeConnection and continue
CliLoop ==
    /\ sPc = "loop"
    /\ IF ctxDone
       THEN sPc' = "check" /\ conn' = closeConnection(conn)
       ELSE sPc' = "read" /\ conn' = conn
    /\ UNCHANGED <<cliFrame, pending, nextId, enqueued, chan, retryCount, backoff,
                   sleepFor, sRet, connGen, sentGen>>

\* an iteration that ends in a decoded message
CliDecode ==
    /\ sPc = "read"
    /\ nextId <= MaxFrames
    /\ pending' = nextId
    /\ nextId' = nextId + 1
    /\ sPc' = "send"
    /\ UNCHANGED <<cliFrame, enqueued, chan, conn, retryCount, backoff, sleepFor, sRet,
                   connGen, sentGen>>

\* an iteration that ends in continue: a timeout, a skipped byte, an unknown
\* type or a parse error
CliNoFrame ==
    /\ sPc = "read"
    /\ sPc' = "loop"
    /\ UNCHANGED <<cliFrame, pending, nextId, enqueued, chan, conn, retryCount, backoff,
                   sleepFor, sRet, connGen, sentGen>>

CliReadErrorReturns ==
    /\ sPc = "read"
    /\ connGen < MaxConns
    /\ sPc' = "returned"
    /\ sRet' = "maxRetries"
    /\ UNCHANGED <<cliFrame, pending, nextId, enqueued, chan, conn, retryCount, backoff,
                   sleepFor, connGen, sentGen>>

CliReadErrorDropsQueue ==
    /\ sPc = "read"
    /\ connGen < MaxConns
    /\ conn' = closeConnection(conn)
    /\ chan' = <<>>
    /\ sPc' = "check"
    /\ UNCHANGED <<cliFrame, pending, nextId, enqueued, retryCount, backoff,
                   sleepFor, sRet, connGen, sentGen>>

\* an iteration that ends in an error return (EOF, reset, or the error of a
\* sync loss): StreamMessages closes the connection and starts over
CliReadError ==
    /\ sPc = "read"
    /\ connGen < MaxConns
    /\ conn' = closeConnection(conn)
    /\ sPc' = "check"
    /\ UNCHANGED <<cliFrame, pending, nextId, enqueued, chan, retryCount, backoff,
                   sleepFor, sRet, connGen, sentGen>>

\* the hand-off: the send case of the select
CliSend ==
    /\ sPc = "send"
    /\ Len(chan) < QueueCap
    /\ chan' = Append(chan, pending)
    /\ enqueued' = Append(enqueued, pending)
    /\ sentGen' = Append(sentGen, connGen)
    /\ pending' = 0
    /\ sPc' = "loop"
    /\ UNCHANGED <<cliFrame, nextId, conn, retryCount, backoff, sleepFor, sRet, connGen>>

CliSendCancelledIgnored ==
    /\ sPc = "send"
    /\ ctxDone
    /\ UNCHANGED vars

\* the hand-off: the ctx.Done case of the select
CliSendCancelled ==
    /\ sPc = "send"
    /\ ctxDone
    /\ pending' = 0
    /\ conn' = closeConnection(conn)
    /\ sPc' = "check"
    /\ UNCHANGED <<cliFrame, nextId, enqueued, chan, retryCount, backoff, sleepFor, sRet,
                   connGen, sentGen>>

CliNext ==
    \/ MainCancel
    \/ CliTop
    \/ CliDialOK
    \/ CliDialFail
    \/ CliWake
    \/ CliLoop
    \/ CliDecode
    \/ CliNoFrame
    \/ CliReadError
    \/ CliSend
    \/ CliSendCancelled
    \/ StreamCloseChan
    \/ CollectorRecv
    \/ CollectorCancel
    \/ CollectorClosed

SpecClient == CliInit /\ [][CliNext]_vars

\* The stream goroutine is scheduled whenever it can run, and a receiver that
\* becomes reachable means that dialling again and again eventually succeeds.
StreamStep ==
    \/ CliTop
    \/ CliWake
    \/ CliLoop
    \/ CliNoFrame
    \/ CliSend
    \/ CliSendCancelled

FairSpecClient ==
    /\ CliInit
    /\ [][CliNext]_vars
    /\ WF_vars(StreamStep)
    /\ WF_vars(CliDialOK \/ CliDialFail)
    /\ SF_vars(CliDialOK)

\* ---- steps of the collector, as seen from outside ----
RecvStep == received' # received

FlushStep == calls' # calls

ReturnStep == cPc = "run" /\ cPc' = "returned"

OneCallAdded == Len(calls') = Len(calls) + 1 /\ SubSeq(calls', 1, Len(calls)) = calls

SinceLastFlush == SubSeq(received', Len(Flatten(calls)) + 1, Len(received'))

LastFlushAt == IF calls = <<>> THEN 0 ELSE Last(calls).at

\* C1: storage receives the messages in the order in which the Stream Client
\* enqueued them: any two messages of the concatenated InsertBatch arguments
\* stand in the same order as in the queue's history.
OrderPreserved ==
    LET F == Flatten(calls)
    IN \A i, j \in 1..Len(F) :
          i < j => /\ F[i] \in Range(enqueued)
                   /\ F[j] \in Range(enqueued)
                   /\ Pos(enqueued, F[i]) < Pos(enqueued, F[j])

OrderPreservedWitness == Len(calls) >= 2 /\ Len(Flatten(calls)) >= 3

\* C2: the step that receives the batchSize-th message since the previous
\* flush calls InsertBatch, in that same step, with exactly those batchSize
\* messages, whatever the clock says.
SizeFlushImmediate ==
    [][(RecvStep /\ Len(batch) + 1 = BatchSize) =>
          /\ OneCallAdded
          /\ Last(calls').msgs = SubSeq(received', Len(received') - BatchSize + 1, Len(received'))
          /\ Len(Last(calls').msgs) = BatchSize
          /\ batch' = <<>>]_vars

SizeFlushImmediateWitness ==
    /\ calls # <<>>
    /\ calls[1].site = "size"
    /\ calls[1].at = 0
    /\ Len(calls[1].msgs) = BatchSize

\* C3 (as claimed): a non-empty batch never stays unflushed for longer than
\* flush_interval after the last flush, even when no further message arrives.
StalenessBounded ==
    (cPc = "run" /\ batch # <<>>) => now - LastFlushAt <= FlushInterval

\* C4: when the collector observes cancellation with a non-empty partial batch
\* it issues exactly one InsertBatch whose argument is that batch and returns;
\* a returned collector issues no further storage write.
CancelFinalFlush ==
    /\ [][(ReturnStep /\ cRet' = "ctxErr" /\ batch # <<>>) =>
             /\ ctxDone
             /\ OneCallAdded
             /\ Last(calls').msgs = batch]_vars
    /\ [][cPc = "returned" => (calls' = calls /\ cPc' = "returned")]_vars

CancelFinalFlushWitness ==
    /\ cPc = "returned"
    /\ cRet = "ctxErr"
    /\ calls # <<>>
    /\ Last(calls).site = "cancel"
    /\ Len(Last(calls).msgs) < BatchSize

\* C5 (as claimed): when the collector exits after cancellation, every message
\* the Stream Client had placed in the queue has been passed to a storage write.
NoStrandedOnExit ==
    [][(ReturnStep /\ ctxDone) =>
          Range(enqueued') \subseteq Range(Flatten(calls'))]_vars

\* C6: a failed InsertBatch does not stop the collector: it returns only on
\* cancellation or on a closed queue, and once a write has failed (even when
\* every write fails) each received message is still appended and each
\* threshold reached still produces a flush.
KeepsRunningAfterError ==
    /\ [][(RecvStep /\ \E i \in 1..Len(calls') : ~calls'[i].ok) =>
             /\ cPc' = "run"
             /\ cRet' = "none"
             /\ IF Len(batch) + 1 >= BatchSize \/ now - lastFlushTime >= FlushInterval
                THEN OneCallAdded /\ Last(calls').msgs = batch \o <<Head(chan)>>
                ELSE calls' = calls /\ batch' = batch \o <<Head(chan)>>]_vars
    /\ [][ReturnStep => (ctxDone \/ (chanClosed /\ chan = <<>>))]_vars

KeepsRunningAfterErrorWitness ==
    /\ Len(calls) >= 2
    /\ \A i \in 1..Len(calls) : ~calls[i].ok
    /\ Last(calls).site \in {"size", "time"}
    /\ cPc = "run"

\* C7: a failed batch is discarded: the batch is empty after every flush, and
\* no message of a failed InsertBatch call appears in a later call or in the
\* batch again.
FailedBatchDiscarded ==
    /\ [][FlushStep => batch' = <<>>]_vars
    /\ [](\A i \in 1..Len(calls) :
             ~calls[i].ok =>
                /\ Range(calls[i].msgs) \cap Range(batch) = {}
                /\ \A j \in 1..Len(calls) :
                      j # i => Range(calls[i].msgs) \cap Range(calls[j].msgs) = {})

FailedBatchDiscardedWitness ==
    /\ Len(calls) >= 2
    /\ ~calls[1].ok
    /\ batch # <<>>

\* C8 (as claimed): after every flush, failed ones included, the next
\* time-triggered flush comes no sooner than flush_interval after that flush.
TimeBasisResetAfterEveryFlush ==
    \A i \in 2..Len(calls) :
        calls[i].site = "time" => calls[i].at - calls[i-1].at >= FlushInterval

\* C9: every flush is exactly one InsertBatch call, and its argument is the
\* whole batch: all messages received since the previous flush, in arrival
\* order.
OneWritePerFlush ==
    /\ [][FlushStep =>
             /\ OneCallAdded
             /\ Last(calls').msgs = SinceLastFlush
             /\ batch' = <<>>]_vars
    /\ [](Flatten(calls) \o batch = received)

OneWritePerFlushWitness ==
    \E i \in 1..Len(calls) : Len(calls[i].msgs) >= 2

\* C10: when the collector finds the queue closed it passes a non-empty
\* remainder to storage in one InsertBatch call and returns nil.
ClosedFlushesRemainder ==
    /\ [][(ReturnStep /\ cRet' # "ctxErr") =>
             /\ chanClosed
             /\ chan = <<>>
             /\ cRet' = "nil"
             /\ IF batch # <<>>
                THEN OneCallAdded /\ Last(calls').msgs = batch
                ELSE calls' = calls]_vars
    /\ [](cRet = "nil" => (cPc = "returned" /\ chanClosed))

ClosedFlushesRemainderWitness ==
    /\ cPc = "returned"
    /\ cRet = "nil"
    /\ calls # <<>>
    /\ Last(calls).site = "closed"

\* C11: a full queue blocks the hand-off instead of dropping the message:
\* while the queue is full and cancellation has not been signalled the read
\* loop stays at the hand-off with its message, and, absent cancellation,
\* the messages enqueued are exactly the messages decoded so far (less the
\* one being handed off), each once.
HandOffBlocksWhenFull ==
    /\ [][(sPc = "send" /\ Len(chan) >= QueueCap /\ ~ctxDone) =>
             (sPc' = "send" /\ pending' = pending /\ enqueued' = enqueued)]_vars
    /\ [](~ctxDone =>
             /\ Len(enqueued) = (nextId - 1) - (IF pending # 0 THEN 1 ELSE 0)
             /\ \A k \in 1..Len(enqueued) : enqueued[k] = k
             /\ pending # 0 => pending = nextId - 1)

HandOffBlocksWhenFullWitness ==
    /\ sPc = "send"
    /\ Len(chan) = QueueCap
    /\ ~ctxDone
    /\ pending # 0

\* ---- the read loop, as seen from outside ----
\* the tick value a delivered message still carries: its distance from the
\* wall clock at which it was decoded
TicksOf(m) == (now - m.timestamp) * TicksPerSecond

\* C12 (as claimed): a SyncLoss leaves the client streaming on the same
\* socket: the connection is neither closed nor re-established.
SyncLossKeepsConnection ==
    dLast = "syncLoss" => (dConn = "open" /\ dPc = "loop")

\* C13 (as claimed): the SyncLoss report leaves the stream positioned at the
\* unconsumed marker, and a well-formed frame beginning at that marker is
\* decoded and delivered by the next iteration.
SyncLossResumesAtMarker ==
    /\ [](dLast = "syncLoss" => (wire # <<>> /\ Head(wire) = BeastStartByte))
    /\ [][(DecIterate /\ dLast = "syncLoss" /\ shape = "cut" /\ inflight = <<>>) =>
             /\ dLast' = "msg"
             /\ Last(dOut').code = Heartbeat.type
             /\ Last(dOut').message = Heartbeat.payload]_vars

\* C14 (as claimed): a frame encoded with every marker byte of its body
\* doubled is decoded by the read loop into one message with the frame's
\* type, tick value, signal level and payload.
RoundTrip ==
    [][(DecIterate /\ shape = "clean" /\ wire = EncodeFrame(frame)) =>
          /\ dLast' = "msg"
          /\ wire' = <<>>
          /\ Len(dOut') = 1
          /\ dOut'[1].code = frame.type
          /\ dOut'[1].signal = frame.sig
          /\ dOut'[1].message = frame.payload
          /\ TicksOf(dOut'[1]) = BigEndian(frame.ts, 0)]_vars

\* C15: a read that times out on a live connection ends the iteration only:
\* the client stays in the read loop on the same connection, which is not
\* closed, and nothing is delivered by that iteration.
TimeoutKeepsStreaming ==
    [][(DecIterate /\ dLast' = "timeout") =>
          /\ ~(peerClosed /\ inflight = <<>>)
          /\ dConn' = "open"
          /\ dPc' = "loop"
          /\ dOut' = dOut]_vars

TimeoutKeepsStreamingWitness ==
    /\ dLast = "timeout"
    /\ dConn = "open"
    /\ chunks = 1
    /\ wire = <<>>
    /\ inflight # <<>>
    /\ Len(inflight) < Len(EncodeFrame(frame))

\* ---- the connection life cycle, as seen from outside ----
\* C16: a transport failure while streaming closes the socket and puts the
\* client back at the top of its loop without returning; from there, with a
\* receiver that becomes reachable, it connects again and resumes the read
\* loop, unless cancellation is signalled or a configured attempt cap runs out.
ReconnectsAfterFailure ==
    /\ [][(sPc = "read" /\ sPc' \notin {"read", "send", "loop"}) =>
             (sPc' = "check" /\ ~conn' /\ sRet' = "none")]_vars
    /\ \A g \in 1..MaxConns :
          [](((connGen = g /\ ~conn /\ ~ctxDone) =>
                <>(\/ (connGen > g /\ conn /\ sPc = "loop")
                   \/ ctxDone
                   \/ (maxRetries > 0 /\ sRet = "maxRetries"))))

ReconnectsAfterFailureWitness ==
    /\ connGen = 2
    /\ ~ctxDone
    /\ \E i \in 1..Len(sentGen) : sentGen[i] = 2
    /\ \E i \in 1..Len(sentGen) : sentGen[i] = 1

\* C17: with the default client (maxRetries = -1) StreamMessages has returned
\* only if cancellation was signalled, and then with ctx.Err().
NoTerminalSuccess ==
    (maxRetries = -1 /\ sPc \in {"returned", "closed"}) => (ctxDone /\ sRet = "ctxErr")

NoTerminalSuccessWitness ==
    /\ maxRetries = -1
    /\ sPc = "returned"
    /\ connGen >= 1
    /\ retryCount >= RetryCap + 1

\* C18: the delay slept before the n-th consecutive retry is min(2^(n-1), 30)
\* seconds, the backoff never leaves 1..30, and a live connection means the
\* backoff and the failure count are back at 1s and 0.
BackoffSchedule ==
    /\ backoff \in RetryBackoff..BackoffCeiling
    /\ sPc = "sleep" => (sleepFor = backoff /\ sleepFor = Min(2 ^ (retryCount - 1), BackoffCeiling))
    /\ sPc \in {"check", "dial"} => backoff = Min(2 ^ retryCount, BackoffCeiling)
    /\ conn => (backoff = RetryBackoff /\ retryCount = 0)

BackoffScheduleWitness ==
    /\ sPc = "sleep"
    /\ retryCount >= 6
    /\ sleepFor = BackoffCeiling
    /\ connGen >= 1

\* C19 (as claimed): once cancellation is signalled the Stream Client starts
\* no dial and no read, does not sleep a backoff out, and has closed the
\* socket when it has returned.
CancelObservedEverywhere ==
    /\ [][ctxDone => ~(sPc # "dial" /\ sPc' = "dial")]_vars
    /\ [][ctxDone => ~(sPc # "read" /\ sPc' = "read")]_vars
    /\ [][(ctxDone /\ sPc = "sleep" /\ sPc' # "sleep") => sPc' = "returned"]_vars
    /\ [](sPc = "returned" => ~conn)

\* C20: closing a broken connection and connecting again change neither the
\* queue nor the record of what was enqueued, and no message is enqueued twice.
QueueUntouchedByReconnect ==
    /\ [][(conn' # conn \/ connGen' # connGen) =>
             (chan' = chan /\ enqueued' = enqueued /\ received' = received)]_vars
    /\ [](\A i, j \in 1..Len(enqueued) : i # j => enqueued[i] # enqueued[j])

QueueUntouchedByReconnectWitness ==
    /\ connGen = 2
    /\ conn
    /\ chan # <<>>
    /\ \E i \in 1..Len(enqueued) : sentGen[i] = 1 /\ enqueued[i] = Head(chan)

\* ---- shutdown, as seen from main ----
\* C21 (as claimed): main does not finish (and with it close the database)
\* while the collector is still running: when main has exited, the collector
\* has returned, its final InsertBatch completed or failed.
ShutdownWaitsForFinalFlush ==
    mPc = "exited" => cPc = "returned"

\* ---- heartbeats ----
\* C22: a heartbeat frame is decoded and handed off like any other frame: the
\* iteration that finds it ends in a hand-off of one message with type code
\* 0x31, classification mode_ac, no station address and the two zero payload
\* bytes, and the client stays on the connection.
HeartbeatAccepted ==
    [][(DecIterate /\ frame = Heartbeat /\ wire = EncodeFrame(Heartbeat)) =>
          /\ dLast' = "msg"
          /\ dConn' = "open"
          /\ dPc' = "loop"
          /\ Len(dOut') = Len(dOut) + 1
          /\ Last(dOut').code = BeastTypeModeAC
          /\ Last(dOut').messageType = "mode_ac"
          /\ Last(dOut').icao = ""
          /\ Last(dOut').signal = 0
          /\ Last(dOut').message = <<0, 0>>]_vars

HeartbeatAcceptedWitness ==
    /\ frame = Heartbeat
    /\ dLast = "msg"
    /\ Len(dOut) = 1
    /\ dOut[1].messageType = "mode_ac"
    /\ wire = <<>>
    /\ inflight = <<>>

\* ======================================================================
\* Package models on its own: ParseBeastMessage, extractICAO and
\* determineMessageType applied to byte slices
\* ======================================================================
MaxPayloadLen == 15     \* longest payload cut from the input bytes

\* the first three payload bytes of the inputs, the rest being zero
PayloadHeads ==
    {<<b0, 72, 64>> : b0 \in 0..255}
    \cup {<<b0, b1, b2>> : b0 \in {0, 141, 255}, b1 \in {0, 10, 255}, b2 \in {0, 188, 255}}

MessageInputs ==
    {SubSeq(h \o [i \in 1..(MaxPayloadLen - 3) |-> 0], 1, n) :
        h \in PayloadHeads, n \in {0, 1, 2, 3, BeastDataLenModeSShort, BeastDataLenModeSLong}}

\* frames of every length up to one byte more than the longest well-formed
\* frame, with known and unknown type bytes and right and wrong start bytes
DataInputs ==
    {SubSeq(<<start, ty>> \o ts \o <<sig>> \o h \o [i \in 1..(MaxPayloadLen - 3) |-> 0], 1, n) :
        start \in {BeastStartByte, 0},
        ty \in {BeastTypeModeAC, BeastTypeModeSShort, BeastTypeModeSLong, 52, BeastStartByte},
        ts \in TimestampInputs \cup {<<0, 0, 0, 0, 0, 1>>},
        sig \in {0, 255},
        h \in {<<141, 72, 64>>, <<0, 0, 0>>, <<255, 255, 255>>, <<160, 10, 188>>},
        n \in 0..(BeastHeaderLen + BeastTimestampLen + BeastSignalLen + MaxPayloadLen)}

ModelsInit ==
    /\ PipeInit
    /\ DecIdle
    /\ CliIdle
    /\ TaskIdle
    /\ RedialIdle
    /\ DaemonIdle
    /\ input \in MessageInputs \cup DataInputs
    /\ called = "none"
    /\ result = "none"

\* a run-time panic ends the call without a return value
CallParseBeastMessage ==
    /\ called = "none"
    /\ called' = "ParseBeastMessage"
    /\ result' = ParseBeastMessage(input, now)
    /\ UNCHANGED <<input, pipeVars, decVars, cliVars, taskVars, redialVars, daemonVars>>

CallExtractICAO ==
    /\ called = "none"
    /\ called' = "extractICAO"
    /\ result' = extractICAO(input)
    /\ UNCHANGED <<input, pipeVars, decVars, cliVars, taskVars, redialVars, daemonVars>>

CallDetermineMessageType ==
    /\ called = "none"
    /\ called' = "determineMessageType"
    /\ result' = determineMessageType(input)
    /\ UNCHANGED <<input, pipeVars, decVars, cliVars, taskVars, redialVars, daemonVars>>

ModelsNext ==
    \/ CallParseBeastMessage
    \/ CallExtractICAO
    \/ CallDetermineMessageType

SpecModels == ModelsInit /\ [][ModelsNext]_vars

Parsed == called = "ParseBeastMessage" /\ result.err = "none"

\* ---- the decoded message, as returned by ParseBeastMessage ----
\* the payload length the wire format fixes for each type tag
PayloadLenOf(ty) == CASE ty = 49 -> 2 [] ty = 50 -> 7 [] ty = 51 -> 14

\* C23: a message returned by ParseBeastMessage has the payload length of its
\* type tag (2, 7, 14), and for an input that carries a known type tag and
\* whose length is not 2 + 6 + 1 + that payload length, ParseBeastMessage
\* returns an error and no message.
PayloadLenFixedByType ==
    /\ Parsed =>
          /\ result.msg.code \in {49, 50, 51}
          /\ Len(result.msg.message) = PayloadLenOf(result.msg.code)
          /\ Len(input) = 2 + 6 + 1 + PayloadLenOf(result.msg.code)
    /\ (/\ called = "ParseBeastMessage"
        /\ Len(input) >= 2
        /\ input[2] \in {49, 50, 51}
        /\ Len(input) # 2 + 6 + 1 + PayloadLenOf(input[2])) =>
          /\ result.err \notin {"none", "panic"}
          /\ result.msg = NoMsg

PayloadLenFixedByTypeWitness ==
    /\ called = "ParseBeastMessage"
    /\ Len(input) = BeastHeaderLen + BeastTimestampLen + BeastSignalLen + BeastDataLenModeSLong
    /\ input[1] = BeastStartByte
    /\ input[2] = BeastTypeModeSShort
    /\ result.err = "length"

\* ---- unknown type bytes ----
\* C24: a marker followed by a type byte that is no frame type yields no
\* message and leaves the client in the read loop on the same connection; the
\* iteration consumes the marker and the type byte only, the bytes before the
\* next marker are skipped one by one, and the well-formed frame that begins
\* at that marker is decoded and handed off.
UnknownTypeResyncs ==
    /\ [][(DecIterate /\ dLast' = "unknownType") =>
             /\ dOut' = dOut
             /\ dConn' = "open"
             /\ dPc' = "loop"
             /\ wire[2] # BeastStartByte => wire' = SubSeq(wire, 3, Len(wire))]_vars
    /\ [][(DecIterate /\ dLast' = "skip") =>
             (wire' = Tail(wire) /\ dOut' = dOut /\ dConn' = "open")]_vars
    /\ [][(DecIterate /\ shape = "unknownType" /\ dLast \in {"unknownType", "skip"}
              /\ wire = EncodeFrame(frame)) =>
             /\ dLast' = "msg"
             /\ dConn' = "open"
             /\ dOut' = <<Last(dOut')>>
             /\ Last(dOut').code = frame.type
             /\ Last(dOut').signal = frame.sig
             /\ Last(dOut').message = frame.payload]_vars

UnknownTypeResyncsWitness ==
    /\ shape = "unknownType"
    /\ chunks = 1
    /\ dLast = "msg"
    /\ dConn = "open"
    /\ Len(dOut) = 1
    /\ dOut[1].code = frame.type
    /\ dOut[1].message = frame.payload
    /\ frame.type = BeastTypeModeSLong
    /\ wire = <<>>
    /\ inflight = <<>>

TopFiveBits(b) == b \div 8

\* C26: determineMessageType maps the top five bits of payload byte 0 from
\* {0,4,5,11} to surveillance, {16,17,18,19} to extended_squitter, {20,21} to
\* comm_b and any other value to other; an empty payload is unknown; a parsed
\* long-form frame carries the classification of its payload and a parsed
\* short-form frame (0x31) is mode_ac.
ClassificationTable ==
    /\ called = "determineMessageType" =>
          IF Len(input) = 0 THEN result = "unknown"
          ELSE /\ TopFiveBits(input[1]) \in {0, 4, 5, 11} <=> result = "surveillance"
               /\ TopFiveBits(input[1]) \in {16, 17, 18, 19} <=> result = "extended_squitter"
               /\ TopFiveBits(input[1]) \in {20, 21} <=> result = "comm_b"
               /\ TopFiveBits(input[1]) \notin {0, 4, 5, 11, 16, 17, 18, 19, 20, 21}
                     <=> result = "other"
    /\ (Parsed /\ input[2] = 49) => result.msg.messageType = "mode_ac"
    /\ (Parsed /\ input[2] \in {50, 51}) =>
          /\ TopFiveBits(result.msg.message[1]) = 17 => result.msg.messageType = "extended_squitter"
          /\ TopFiveBits(result.msg.message[1]) = 0 => result.msg.messageType = "surveillance"
          /\ TopFiveBits(result.msg.message[1]) = 20 => result.msg.messageType = "comm_b"
          /\ TopFiveBits(result.msg.message[1]) = 31 => result.msg.messageType = "other"

ClassificationTableWitness ==
    /\ called = "determineMessageType"
    /\ Len(input) = BeastDataLenModeSLong
    /\ TopFiveBits(input[1]) = 21
    /\ input[1] % 8 = 7
    /\ result = "comm_b"

BatchTimeout == 2   \* t.batchTimeout in clock ticks

TaskInit ==
    /\ PipeInit
    /\ DecIdle
    /\ CliIdle
    /\ FnIdle
    /\ RedialIdle
    /\ DaemonIdle
    /\ tickerC = FALSE
    /\ tickAt = BatchTimeout
    /\ batchSince = 0

taskFrame == <<mainVars, sPc, pending, cRet, lastFlushTime, decVars, cliVars, fnVars, redialVars, daemonVars>>

\* the producer puts a message in messageChan
TaskProduce ==
    /\ ~chanClosed
    /\ nextId <= MaxMsgs
    /\ Len(chan) < QueueCap
    /\ chan' = Append(chan, nextId)
    /\ enqueued' = Append(enqueued, nextId)
    /\ nextId' = nextId + 1
    /\ UNCHANGED <<taskFrame, chanClosed, cPc, batch, calls, received, now, taskVars>>

\* the producer closes messageChan
TaskProducerClose ==
    /\ ~chanClosed
    /\ chanClosed' = TRUE
    /\ UNCHANGED <<taskFrame, nextId, enqueued, chan, cPc, batch, calls, received, now, taskVars>>

\* A unit of time passes; the ticker fires when its time has come, and the
\* tick is dropped when ticker.C still holds one.  The collector goroutine is
\* taken to handle a tick within the unit of time in which it is delivered.
TaskClock ==
    /\ now < MaxTime
    /\ cPc = "run" => ~tickerC
    /\ now' = now + 1
    /\ IF cPc = "run" /\ now + 1 = tickAt
       THEN tickerC' = TRUE /\ tickAt' = tickAt + BatchTimeout
       ELSE UNCHANGED <<tickerC, tickAt>>
    /\ UNCHANGED <<taskFrame, nextId, enqueued, chan, chanClosed, cPc, batch, calls, received,
                   batchSince>>

\* the closure flushBatch of processMessages
taskFlushBatch(b, ok, site) ==
    IF Len(b) > 0
    THEN /\ calls' = Append(calls, [msgs |-> b, ok |-> ok, at |-> now, site |-> site])
         /\ batch' = <<>>
    ELSE /\ calls' = calls
         /\ batch' = b

\* case <-ctx.Done()
TaskCancel ==
    /\ cPc = "run"
    /\ ctxDone
    /\ \E ok \in BOOLEAN : taskFlushBatch(batch, ok, "cancel")
    /\ cPc' = "returned"
    /\ UNCHANGED <<taskFrame, nextId, enqueued, chan, chanClosed, received, now, taskVars>>

\* case msg := <-t.messageChan, with a message
TaskRecv ==
    /\ cPc = "run"
    /\ chan # <<>>
    /\ LET b == Append(batch, Head(chan))
       IN /\ chan' = Tail(chan)
          /\ received' = Append(received, Head(chan))
          /\ batchSince' = IF batch = <<>> THEN now ELSE batchSince
          /\ IF Len(b) >= BatchSize
             THEN /\ \E ok \in BOOLEAN : taskFlushBatch(b, ok, "size")
                  /\ tickAt' = now + BatchTimeout
             ELSE /\ batch' = b
                  /\ UNCHANGED <<calls, tickAt>>
    /\ UNCHANGED <<taskFrame, nextId, enqueued, chanClosed, cPc, now, tickerC>>

\* case msg := <-t.messageChan on the closed and drained channel: msg is nil
TaskRecvClosed ==
    /\ cPc = "run"
    /\ chan = <<>>
    /\ chanClosed
    /\ \E ok \in BOOLEAN : taskFlushBatch(batch, ok, "closed")
    /\ cPc' = "returned"
    /\ UNCHANGED <<taskFrame, nextId, enqueued, chan, chanClosed, received, now, taskVars>>

TaskOnTickNoFlush ==
    /\ cPc = "run"
    /\ tickerC
    /\ tickerC' = FALSE
    /\ UNCHANGED <<taskFrame, nextId, enqueued, chan, chanClosed, cPc, received, now, tickAt,
                   batchSince, calls, batch>>

\* case <-ticker.C
TaskOnTick ==
    /\ cPc = "run"
    /\ tickerC
    /\ tickerC' = FALSE
    /\ \E ok \in BOOLEAN : taskFlushBatch(batch, ok, "tick")
    /\ UNCHANGED <<taskFrame, nextId, enqueued, chan, chanClosed, cPc, received, now, tickAt,
                   batchSince>>

TaskNext ==
    \/ MainCancel
    \/ TaskProduce
    \/ TaskProducerClose
    \/ TaskClock
    \/ TaskCancel
    \/ TaskRecv
    \/ TaskRecvClosed
    \/ TaskOnTick

SpecTask == TaskInit /\ [][TaskNext]_vars

\* C28: in processMessages a tick taken from ticker.C with a non-empty batch
\* passes that batch to storage in one call, without a message being
\* received in that step, and a non-empty batch of a running collector is
\* never older than batchTimeout.
TickFlushesPartialBatch ==
    /\ [][(tickerC /\ ~tickerC' /\ batch # <<>>) =>
             /\ OneCallAdded
             /\ Last(calls').msgs = batch
             /\ batch' = <<>>
             /\ received' = received]_vars
    /\ []((cPc = "run" /\ batch # <<>>) =>
             (Len(batch) < BatchSize /\ now - batchSince <= BatchTimeout))

TickFlushesPartialBatchWitness ==
    /\ calls # <<>>
    /\ Last(calls).site = "tick"
    /\ Len(Last(calls).msgs) >= 1
    /\ Len(Last(calls).msgs) < BatchSize
    /\ Last(calls).at = batchSince + BatchTimeout
    /\ received = Flatten(calls)
    /\ chan = <<>>
    /\ cPc = "run"

\* ---- the arrival-driven time threshold of BeastCollector.Start ----
\* the time of the last InsertBatch call that succeeded (0, the time of
\* Start, when there is none)
LastOkFlushAt ==
    LET oks == {i \in 1..Len(calls) : calls[i].ok}
    IN IF oks = {} THEN 0 ELSE calls[CHOOSE i \in oks : \A j \in oks : j <= i].at

\* C29: in BeastCollector.Start the step that receives a message when at
\* least flushInterval has elapsed since the last successful flush (or since
\* Start) passes the whole batch, that message included, to InsertBatch in
\* the same step, also when the batch holds fewer than batchSize messages.
ArrivalAfterIntervalFlushes ==
    [][(RecvStep /\ now - LastOkFlushAt >= FlushInterval) =>
          /\ OneCallAdded
          /\ Last(calls').msgs = Append(batch, Last(received'))
          /\ Last(calls').at = now
          /\ batch' = <<>>]_vars

ArrivalAfterIntervalFlushesWitness ==
    /\ Len(calls) >= 2
    /\ ~calls[1].ok
    /\ calls[2].site = "time"
    /\ Len(calls[2].msgs) < BatchSize
    /\ calls[2].at >= FlushInterval
    /\ calls[2].at - calls[1].at < FlushInterval

\* ---- frames split by a read deadline ----
\* C30 (as claimed): on a connection that stays open, a frame whose bytes
\* arrive in several pieces, with read deadlines elapsing in between, is
\* decoded and delivered once all its bytes have arrived: when every byte of
\* the stream has arrived and has been read, the frame has been handed off.
SplitFrameDelivered ==
    (/\ shape = "clean"
     /\ ~peerClosed
     /\ dPc = "loop"
     /\ chunks >= 1
     /\ inflight = <<>>
     /\ wire = <<>>) =>
        /\ Len(dOut) = 1
        /\ dOut[1].code = frame.type
        /\ dOut[1].message = frame.payload

\* ---- the escape rule at the type position ----
\* C31 (as claimed): with a marker read as the start of a frame, a doubled
\* marker at the type position is consumed as the type byte 0x1A and rejected
\* as an unknown type, and a single marker followed by a non-marker byte is
\* left unconsumed, so that the frame beginning at it is decoded.
TypePositionEscape ==
    /\ [][(DecIterate /\ Len(wire) >= 3 /\ SubSeq(wire, 1, 3) = <<26, 26, 26>>) =>
             /\ dLast' = "unknownType"
             /\ wire' = SubSeq(wire, 4, Len(wire))
             /\ dOut' = dOut]_vars
    /\ [][(DecIterate /\ Len(wire) >= 3 /\ SubSeq(wire, 1, 2) = <<26, 26>> /\ wire[3] # 26) =>
             /\ wire' = Tail(wire)
             /\ dOut' = dOut]_vars
    /\ [](shape = "strayMarker" /\ ~peerClosed /\ dPc = "loop" /\ chunks = 1
              /\ inflight = <<>> /\ wire = <<>>
             => (Len(dOut) = 1 /\ dOut[1].code = frame.type /\ dOut[1].message = frame.payload))

ReceivedPassedExactlyOnce ==
    /\ Flatten(calls) \o batch = received
    /\ \A i, j \in 1..Len(received) : i # j => received[i] # received[j]
    /\ cPc = "returned" => (batch = <<>> /\ Flatten(calls) = received)

ReceivedPassedExactlyOnceWitness ==
    /\ cPc = "returned"
    /\ Len(received) = MaxMsgs
    /\ Len(calls) = 3
    /\ calls[1].site = "size"
    /\ ~calls[1].ok
    /\ calls[2].site = "time"
    /\ calls[3].site \in {"cancel", "closed"}

\* C34: every InsertBatch call carries at least one and at most batchSize
\* messages, and a collector that waits in its select holds fewer than
\* batchSize messages.
BatchWithinBounds ==
    /\ BatchSize >= 1
    /\ \A i \in 1..Len(calls) : Len(calls[i].msgs) \in 1..BatchSize
    /\ cPc = "run" => Len(batch) < BatchSize

BatchWithinBoundsWitness ==
    /\ cPc = "returned"
    /\ cRet = "ctxErr"
    /\ Len(calls) >= 2
    /\ Last(calls).site = "size"
    /\ Len(Last(calls).msgs) = BatchSize
    /\ \E i \in 1..Len(calls) : Len(calls[i].msgs) = 1

\* ---- closure of the queue by the producer ----
\* C35: a collector that returns while cancellation has not been signalled
\* returns because the queue is closed and drained: it has received every
\* message that was ever enqueued, and all of them have been passed to
\* InsertBatch.
ClosedQueueDrained ==
    [][(ReturnStep /\ ~ctxDone) =>
          /\ chanClosed
          /\ chan = <<>>
          /\ cRet' = "nil"
          /\ received' = enqueued
          /\ Flatten(calls') = enqueued]_vars

ClosedQueueDrainedWitness ==
    /\ cPc = "returned"
    /\ cRet = "nil"
    /\ ~ctxDone
    /\ sRet = "maxRetries"
    /\ Len(enqueued) = MaxFrames
    /\ Flatten(calls) = enqueued
    /\ Last(calls).site = "closed"

\* ---- termination after cancellation ----
\* Both goroutines are scheduled whenever they can run; a storage write
\* returns within the handler that issues it.
CollectorStep ==
    \/ CollectorRecv
    \/ CollectorCancel
    \/ CollectorClosed

FairSpecShutdown ==
    /\ CliInit
    /\ [][CliNext]_vars
    /\ WF_vars(StreamStep)
    /\ WF_vars(CliDialOK \/ CliDialFail)
    /\ WF_vars(CollectorStep)

MainCloseClient ==
    /\ mPc = "cancelled"
    /\ mPc' = "closed"
    /\ conn' = closeConnection(conn)
    /\ UNCHANGED <<ctxDone, sPc, pending, nextId, enqueued, chan, chanClosed, collectorVars, now,
                   decVars, fnVars, taskVars, redialVars, daemonVars, maxRetries, retryCount,
                   backoff,
                   sleepFor, sRet, connGen, sentGen>>

\* Inside an iteration of readMessages, past its ctx check, the next
\* c.conn.SetReadDeadline or c.reader.ReadByte finds the field nil: a nil
\* dereference.  The fields are read without synchronization, so the
\* goroutine may as well still see the old values and go on with the closed
\* connection, which the other actions of the read loop cover.
CliUseAfterClose ==
    /\ sPc = "read"
    /\ ~conn
    /\ sPc' = "panicked"
    /\ UNCHANGED <<cliFrame, pending, nextId, enqueued, chan, conn, retryCount, backoff,
                   sleepFor, sRet, connGen, sentGen>>

CloseNext ==
    \/ CliNext
    \/ MainCloseClient
    \/ CliUseAfterClose

SpecClose == CliInit /\ [][CloseNext]_vars

\* C37 (as claimed): with Close called from main while StreamMessages runs,
\* the read loop never uses c.conn or c.reader after Close has set them to
\* nil.
CloseIsSafe ==
    sPc # "panicked"

(***************************************************************************)
(* The read loop across a reconnect.  The receiver's first connection      *)
(* carries the first k bytes of a frame and then ends; the connection      *)
(* made by the next connect() carries the rest of that frame followed by   *)
(* a heartbeat.  closeConnection drops c.reader, connect() makes a new     *)
(* bufio.Reader, and readMessages keeps nothing between calls.             *)
(***************************************************************************)
SplitPoints(f) == 1..(Len(EncodeFrame(f)) - 1)

RedialInit ==
    /\ PipeInit
    /\ CliIdle
    /\ FnIdle
    /\ TaskIdle
    /\ DaemonIdle
    /\ \E f \in FrameInputs \ {Heartbeat} : \E k \in SplitPoints(f) :
          /\ frame = f
          /\ shape = "split"
          /\ inflight = SubSeq(EncodeFrame(f), 1, k)
          /\ redialBytes = SubSeq(EncodeFrame(f), k + 1, Len(EncodeFrame(f)))
                              \o EncodeFrame(Heartbeat)
    /\ wire = <<>>
    /\ peerClosed = FALSE
    /\ chunks = 0
    /\ dPc = "loop"
    /\ dConn = "open"
    /\ dOut = <<>>
    /\ dLast = "none"

\* the bytes of the frame that travelled on the first connection
OldConnBytes ==
    SubSeq(EncodeFrame(frame), 1,
           Len(EncodeFrame(frame)) + Len(EncodeFrame(Heartbeat)) - Len(redialBytes))

\* a connect() that resumes with what the old connection had delivered
DecRedialKeepsPartial ==
    /\ dPc = "down"
    /\ dConn = "closed"
    /\ redialBytes # <<>>
    /\ dPc' = "loop"
    /\ dConn' = "open"
    /\ wire' = OldConnBytes
    /\ inflight' = redialBytes
    /\ redialBytes' = <<>>
    /\ peerClosed' = FALSE
    /\ chunks' = 0
    /\ dLast' = "redial"
    /\ UNCHANGED <<frame, shape, dOut, pipeVars, cliVars, fnVars, taskVars, daemonVars>>

\* StreamMessages finds c.conn == nil and connect() succeeds: a new
\* connection with a new, empty reader
DecRedial ==
    /\ dPc = "down"
    /\ dConn = "closed"
    /\ redialBytes # <<>>
    /\ dPc' = "loop"
    /\ dConn' = "open"
    /\ wire' = <<>>
    /\ inflight' = redialBytes
    /\ redialBytes' = <<>>
    /\ peerClosed' = FALSE
    /\ chunks' = 0
    /\ dLast' = "redial"
    /\ UNCHANGED <<frame, shape, dOut, pipeVars, cliVars, fnVars, taskVars, daemonVars>>

RedialNext ==
    \/ DecArrive
    \/ DecPeerClose
    \/ DecIterate
    \/ DecRedial

SpecRedial == RedialInit /\ [][RedialNext]_vars

IsHeartbeatMsg(m) ==
    /\ m.code = Heartbeat.type
    /\ m.signal = Heartbeat.sig
    /\ m.message = Heartbeat.payload

\* C38: a frame whose bytes are split over two connections is never
\* delivered: nothing is decoded from the first connection's part, the read
\* loop that ends the first connection leaves nothing buffered, the new
\* connection starts with an empty reader in the awaiting-marker state (a
\* first byte that is not the marker is skipped, not taken as the
\* continuation of the old frame), and every message delivered afterwards
\* is the heartbeat that the new connection carried whole.
NoCrossConnectionMessage ==
    /\ [][/\ (redialBytes # <<>> => dOut' = <<>>)
          /\ (dConn' = "closed" => (wire' = <<>> /\ inflight' = <<>>))
          /\ ((dConn = "closed" /\ dConn' = "open") => (wire' = <<>> /\ dPc' = "loop"))
          /\ \A i \in 1..Len(dOut') : IsHeartbeatMsg(dOut'[i])
          /\ (DecIterate /\ redialBytes = <<>> /\ wire # <<>> /\ Head(wire) # BeastStartByte)
                => (dLast' = "skip" /\ wire' = Tail(wire) /\ dOut' = dOut)]_vars

\* the old connection ended inside the payload of a long frame, and the
\* heartbeat of the new connection was delivered after the rest of the old
\* frame had been skipped
NoCrossConnectionMessageWitness ==
    /\ shape = "split"
    /\ frame.type = BeastTypeModeSLong
    /\ redialBytes = <<>>
    /\ Len(inflight) + Len(wire) = 0
    /\ dConn = "open"
    /\ Len(dOut) = 1
    /\ IsHeartbeatMsg(dOut[1])

\* C39: ParseBeastMessage returns an error and no message for every
\* malformed input (wrong or missing start byte, unknown type, wrong length,
\* input shorter than a full frame), and no call ends in an out-of-range
\* access.
MalformedRejectedWithoutPanic ==
    called = "ParseBeastMessage" =>
        /\ result.err # "panic"
        /\ (result.err # "none" => result.msg = NoMsg)
        /\ (result.err = "none" =>
               /\ input[1] = BeastStartByte
               /\ input[2] \in {BeastTypeModeAC, BeastTypeModeSShort, BeastTypeModeSLong}
               /\ Len(input) = BeastHeaderLen + BeastTimestampLen + BeastSignalLen
                                  + GetBeastDataLen(input[2]))

(***************************************************************************)
(* The daemon: Daemon.New and Daemon.Start have returned.  The streamer    *)
(* goroutine of New runs StreamMessages and closes messageChan after it;   *)
(* Scheduler.runTask runs the collector task, first at once and then on    *)
(* every tick of its ticker; the goroutine of Start closes d.done once the *)
(* context is cancelled.  Daemon.Stop is the caller's thread, at mPc.      *)
(* A panic of any goroutine ends the process, Stop included.               *)
(***************************************************************************)
Alive == sPc # "panicked"

\* bounds of the daemon runs
DaemonFrames == 2
DaemonFails == 1
DaemonTime == 2

DaemonInit ==
    /\ PipeInit
    /\ DecIdle
    /\ FnIdle
    /\ RedialIdle
    /\ maxRetries = -1
    /\ conn = FALSE
    /\ retryCount = 0
    /\ backoff = RetryBackoff
    /\ sleepFor = 0
    /\ sRet = "none"
    /\ connGen = 0
    /\ sentGen = <<>>
    /\ tickerC = FALSE
    /\ tickAt = BatchTimeout
    /\ batchSince = 0
    /\ done = FALSE
    /\ wg = 1
    /\ rtTick = FALSE
    /\ dbOpen = TRUE

daemonFrame == <<streamVars, chan, chanClosed, collectorVars, now, decVars, fnVars, taskVars,
                 redialVars, maxRetries, retryCount, backoff, sleepFor, sRet, connGen, sentGen>>

\* the goroutine of Start: <-d.ctx.Done(); close(d.done)
DaemonSignalDone ==
    /\ Alive
    /\ ctxDone
    /\ ~done
    /\ done' = TRUE
    /\ UNCHANGED <<daemonFrame, mainVars, conn, wg, rtTick, dbOpen>>

\* Stop: <-d.done (d.cancel() before it is MainCancel)
DaemonAwaitDone ==
    /\ Alive
    /\ mPc = "cancelled"
    /\ done
    /\ mPc' = "schedulerStop"
    /\ UNCHANGED <<daemonFrame, ctxDone, conn, daemonVars>>

\* Stop: d.scheduler.Stop(), that is s.cancel() and s.wg.Wait()
DaemonSchedulerStop ==
    /\ Alive
    /\ mPc = "schedulerStop"
    /\ wg = 0
    /\ mPc' = "closeClient"
    /\ UNCHANGED <<daemonFrame, ctxDone, conn, daemonVars>>

\* Stop: d.beastClient.Close()
DaemonCloseClient ==
    /\ Alive
    /\ mPc = "closeClient"
    /\ conn' = closeConnection(conn)
    /\ mPc' = "closeDatabase"
    /\ UNCHANGED <<daemonFrame, ctxDone, daemonVars>>

\* Stop: d.database.Close(), and the return
DaemonCloseDatabase ==
    /\ Alive
    /\ mPc = "closeDatabase"
    /\ dbOpen' = FALSE
    /\ mPc' = "stopped"
    /\ UNCHANGED <<daemonFrame, ctxDone, conn, done, wg, rtTick>>

\* the ticker of runTask delivers a tick (ticker.C holds at most one)
RunTaskTickerFires ==
    /\ Alive
    /\ wg = 1
    /\ ~rtTick
    /\ rtTick' = TRUE
    /\ UNCHANGED <<daemonFrame, mainVars, conn, done, wg, dbOpen>>

\* runTask, after task.Run has returned: case <-ticker.C runs the task again,
\* with a new batch and a new ticker in processMessages
RunTaskRunAgain ==
    /\ Alive
    /\ wg = 1
    /\ cPc = "returned"
    /\ rtTick
    /\ rtTick' = FALSE
    /\ cPc' = "run"
    /\ batch' = <<>>
    /\ tickerC' = FALSE
    /\ tickAt' = now + BatchTimeout
    /\ UNCHANGED <<mainVars, streamVars, chan, chanClosed, cRet, lastFlushTime, calls, received,
                   now, batchSince, decVars, cliVars, fnVars, redialVars, done, wg, dbOpen>>

\* runTask, after task.Run has returned: case <-s.ctx.Done() returns, and the
\* deferred s.wg.Done() runs
RunTaskExit ==
    /\ Alive
    /\ wg = 1
    /\ cPc = "returned"
    /\ ctxDone
    /\ wg' = 0
    /\ UNCHANGED <<daemonFrame, mainVars, conn, done, rtTick, dbOpen>>

TaskStep ==
    \/ TaskCancel
    \/ TaskRecv
    \/ TaskRecvClosed
    \/ TaskOnTick

StopStep ==
    \/ DaemonAwaitDone
    \/ DaemonSchedulerStop
    \/ DaemonCloseClient
    \/ DaemonCloseDatabase

DaemonNext ==
    \/ MainCancel
    \/ DaemonSignalDone
    \/ StopStep
    \/ CliTop
    \/ CliDialOK
    \/ ((ctxDone \/ retryCount < DaemonFails) /\ CliDialFail)
    \/ CliWake
    \/ CliLoop
    \/ (nextId <= DaemonFrames /\ CliDecode)
    \/ CliNoFrame
    \/ CliReadError
    \/ CliSend
    \/ CliSendCancelled
    \/ CliUseAfterClose
    \/ StreamCloseChan
    \/ (now < DaemonTime /\ TaskClock)
    \/ (Alive /\ TaskStep)
    \/ RunTaskTickerFires
    \/ RunTaskRunAgain
    \/ RunTaskExit

SpecDaemon == DaemonInit /\ [][DaemonNext]_vars

\* Every thread that can take a step eventually does; the select of runTask
\* picks among its ready cases at random, so the ctx.Done case is not
\* passed over forever.
FairSpecDaemon ==
    /\ SpecDaemon
    /\ WF_vars(StopStep)
    /\ WF_vars(DaemonSignalDone)
    /\ WF_vars(Alive /\ TaskStep)
    /\ SF_vars(RunTaskExit)

\* the database is closed only after every runTask goroutine has exited
DatabaseClosedAfterTasks == ~dbOpen => (wg = 0 /\ cPc = "returned")

\* every storage write of the collector task is made while the database is open
FlushAgainstOpenDatabase == [][calls' # calls => (dbOpen /\ dbOpen')]_vars

\* C40: Daemon.Stop, once called, eventually returns; it closes the database
\* only after Scheduler.Stop has waited for the task goroutine to exit; and
\* every flush of the collector task runs against the open database.
DaemonStopCompletes ==
    /\ []DatabaseClosedAfterTasks
    /\ FlushAgainstOpenDatabase
    /\ (mPc = "cancelled" ~> mPc = "stopped")

\* the same without the use of the closed client by the streamer goroutine
DaemonNextNoPanic ==
    \/ MainCancel
    \/ DaemonSignalDone
    \/ StopStep
    \/ CliTop
    \/ CliDialOK
    \/ ((ctxDone \/ retryCount < DaemonFails) /\ CliDialFail)
    \/ CliWake
    \/ CliLoop
    \/ (nextId <= DaemonFrames /\ CliDecode)
    \/ CliNoFrame
    \/ CliReadError
    \/ CliSend
    \/ CliSendCancelled
    \/ StreamCloseChan
    \/ (now < DaemonTime /\ TaskClock)
    \/ (Alive /\ TaskStep)
    \/ RunTaskTickerFires
    \/ RunTaskRunAgain
    \/ RunTaskExit

FairSpecDaemonNoPanic ==
    /\ DaemonInit
    /\ [][DaemonNextNoPanic]_vars
    /\ WF_vars(StopStep)
    /\ WF_vars(DaemonSignalDone)
    /\ WF_vars(Alive /\ TaskStep)
    /\ SF_vars(RunTaskExit)

====
